---- MODULE Spec2Model ----
(***************************************************************************)
(* A model of src/utils.py: the reddit TIFU loading pipeline (load_reddit, *)
(* split_data), the sequential batch loader (create_data_loader), the      *)
(* learning-rate scheduler selector (init_schedule) and the padding        *)
(* batcher (batch_by_instances).                                           *)
(*                                                                         *)
(* The four functions share no state, so each has its own specification    *)
(* over its own variables; the variables of the other functions stay at    *)
(* their idle values.                                                      *)
(***************************************************************************)
EXTENDS Integers, Sequences, FiniteSets, TLC

VARIABLES
    \* ---- load_reddit / split_data
    pc,             \* position in load_reddit / split_data
    min_len,        \* load_reddit's min_len argument
    train_split,    \* ratio in percent: the float train_split is train_split/100
    val_split,      \* ratio in percent
    raw_dataset,    \* history: the concatenated dataset load_reddit started from
    dataset,        \* the local `dataset` (a row list, then the split's DatasetDict)
    split_input,    \* history: the row list split_data was called with
    train_dataset, val_dataset, test_dataset,
    \* ---- batch_by_instances
    bb_pc, sequences, labels, batch_size, pad_token, i, batches_x, batches_y,
    \* ---- init_schedule
    is_pc, sched, len_train_loader, lr, epochs, emb_dim, scheduler, exc,
    \* ---- create_data_loader and one pass over the loader it returns
    dl_pc, dl_dataset, dl_batch_size, idx, batch, yielded

argVars == <<min_len, train_split, val_split, raw_dataset>>
redditVars == <<pc, argVars, dataset, split_input,
                train_dataset, val_dataset, test_dataset>>
batchVars  == <<bb_pc, sequences, labels, batch_size, pad_token, i, batches_x, batches_y>>
schedVars  == <<is_pc, sched, len_train_loader, lr, epochs, emb_dim, scheduler, exc>>
loaderVars == <<dl_pc, dl_dataset, dl_batch_size, idx, batch, yielded>>
vars == <<redditVars, batchVars, schedVars, loaderVars>>

(***************************************************************************)
(* Bounds                                                                  *)
(***************************************************************************)
MaxN == 4           \* rows of the concatenated reddit dataset
MaxSplitN == 10      \* rows of a dataset handed to split_data directly

MaxSeqs == 3         \* sequences handed to batch_by_instances
MaxSeqLen == 2       \* longest sequence, in tokens
MaxBatch == 3        \* largest batch_size tried

Tokens == {1, 2}
Labels == {0, 1}
PadTokens == {0, 1}

MaxLoaderLen == 2    \* largest len(train_loader) tried
MaxEpochs == 2       \* largest epochs tried
MaxData == 4         \* instances of a dataset handed to create_data_loader

\* values of sched tried: the names the code compares with, and others
SchedNames ==
    {"constant", "none", "cosineannealing", "invsqrt", "linear", "onecycle", "noam",
     "bogus", "", "Constant", "cosine", "step"}

\* values of lr tried, as <<numerator, denominator>>
LearningRates == {<<0, 1>>, <<1, 1000>>, <<1, 1>>, <<3, 1>>}

\* values of emb_dim tried
EmbDims == {0, 4}

\* (document length, summary length) of the rows tried
Shapes == {<<2, 1>>, <<3, 1>>, <<3, 2>>, <<2, 2>>, <<1, 2>>}

\* values of min_len tried
MinLens == {0, 1}

\* (train_split, val_split) in percent; all have train + val < 100, both > 0
Ratios == {<<50, 25>>, <<25, 25>>, <<25, 50>>, <<34, 33>>, <<80, 10>>}

None == "None"

\* no exception raised / no scheduler object bound
NoException == [type |-> None, by |-> None]
NoScheduler == [cls |-> None]

\* The values the variables of a function hold while another one is modelled
IdleReddit ==
    /\ pc = "idle" /\ min_len = 0 /\ train_split = 0 /\ val_split = 0
    /\ raw_dataset = << >> /\ dataset = << >> /\ split_input = << >>
    /\ train_dataset = << >> /\ val_dataset = << >> /\ test_dataset = << >>

IdleBatch ==
    /\ bb_pc = "idle" /\ sequences = << >> /\ labels = << >> /\ batch_size = 0
    /\ pad_token = 0 /\ i = 0 /\ batches_x = << >> /\ batches_y = << >>

IdleSched ==
    /\ is_pc = "idle" /\ sched = "" /\ len_train_loader = 0 /\ lr = 0
    /\ epochs = 0 /\ emb_dim = 0 /\ scheduler = NoScheduler /\ exc = NoException

IdleLoader ==
    /\ dl_pc = "idle" /\ dl_dataset = << >> /\ dl_batch_size = 0 /\ idx = 0
    /\ batch = << >> /\ yielded = << >>

(***************************************************************************)
(* Helpers                                                                 *)
(***************************************************************************)
\* len() of a list or a string
len(x) == Len(x)

Range(s) == {s[k] : k \in 1..Len(s)}

\* math.ceil(a / b) for a >= 0, b > 0
CeilDiv(a, b) == (a + b - 1) \div b

Abs(x) == IF x < 0 THEN -x ELSE x

\* a string of k characters
Text(k) == [j \in 1..k |-> "a"]

\* The outcomes of the random generator behind Dataset.shuffle() and behind
\* train_test_split's own shuffle that are tried for a dataset of n rows: the
\* rotations of 1..n and their reversals (every permutation when n <= 3).
ShuffleOutcomes(n) ==
    {[j \in 1..n |-> ((j - 1 + r) % n) + 1] : r \in 0..(n - 1)}
    \cup {[j \in 1..n |-> ((n - j + r) % n) + 1] : r \in 0..(n - 1)}

(***************************************************************************)
(* load_reddit: filter, doc_len column                                     *)
(***************************************************************************)
KeepIgnoringSummary(x, m) ==
    /\ len(x.document) > m
    /\ len(x.document) > len(x.summary)

\* The predicate of dataset.filter(...)
Keep(x, m) ==
    /\ len(x.document) > m
    /\ len(x.summary) > m
    /\ len(x.document) > len(x.summary)

\* Dataset.filter(f): the rows satisfying f, in order
Filter(ds, m) == SelectSeq(ds, LAMBDA x : Keep(x, m))

\* The lambda of dataset.map(...): the value of the new column
DocLen(x) == len(x.document)

\* Dataset.map(lambda x: {'doc_len': ...}): every row gains the column
Map(ds) == [k \in 1..Len(ds) |->
              [row |-> ds[k].row, document |-> ds[k].document,
               summary |-> ds[k].summary, doc_len |-> DocLen(ds[k])]]

RECURSIVE InsertSorted(_, _)
InsertSorted(s, x) ==
    IF s = << >> THEN << x >>
    ELSE IF x.doc_len < Head(s).doc_len THEN << x >> \o s
    ELSE << Head(s) >> \o InsertSorted(Tail(s), x)

RECURSIVE SortRec(_, _)
SortRec(ds, k) ==
    IF k = 0 THEN << >> ELSE InsertSorted(SortRec(ds, k - 1), ds[k])

SortNone(ds) == ds

\* Dataset.sort('doc_len'): ascending, rows of equal key keep their order
Sort(ds) == SortRec(ds, Len(ds))

(***************************************************************************)
(* split_data                                                              *)
(***************************************************************************)
FirstTestSizeSwapped(t) == <<t, 100>>

\* test_size of the first split, 1 - train_split, as <<numerator, denominator>>
FirstTestSize(t) == <<100 - t, 100>>

\* test_size of the second split, 1 - (val_split / (1 - train_split))
SecondTestSize(t, v) == <<100 - t - v, 100 - t>>

HeldOutWhole(d) == d.train \o d.test

\* dataset['test'], the part the second split is applied to
HeldOut(d) == d.test

\* ceil(test_size * n_samples) in floating point: when the exact product is a
\* positive integer the rounded product may lie just above it (1 - 0.7 is
\* 0.30000000000000004, so ceil((1 - 0.7) * 10) is 4); up says whether it does.
FloatCeil(ts, n, up) ==
    CeilDiv(ts[1] * n, ts[2])
      + (IF up /\ ts[1] * n > 0 /\ (ts[1] * n) % ts[2] = 0 THEN 1 ELSE 0)

\* Dataset.train_test_split(test_size=ts) with the default shuffle=True:
\* n_test = ceil(test_size * n), n_train = n - n_test, ValueError when the
\* train part would be empty, test = the first n_test rows of the permutation,
\* train = the next n_train.
TrainTestSplit(ds, ts, p, up) ==
    LET n == Len(ds)
        n_test == FloatCeil(ts, n, up)
        n_train == n - n_test
    IN  IF n_train <= 0
        THEN [error |-> "ValueError"]
        ELSE [error |-> None,
              test  |-> [j \in 1..n_test |-> ds[p[j]]],
              train |-> [j \in 1..n_train |-> ds[p[n_test + j]]]]

\* dataset.shuffle().flatten_indices()
Shuffled(ds, p) == [j \in 1..Len(ds) |-> ds[p[j]]]

Shuffle ==
    /\ pc = "split_data"
    /\ \E p \in ShuffleOutcomes(Len(dataset)) :
          dataset' = Shuffled(dataset, p)
    /\ split_input' = dataset
    /\ pc' = "shuffled"
    /\ UNCHANGED <<argVars, train_dataset, val_dataset,
                   test_dataset, batchVars, schedVars, loaderVars>>

\* dataset = dataset.train_test_split(test_size=1-train_split)
\* train_dataset = dataset['train']
Split1 ==
    /\ pc = "shuffled"
    /\ \E p \in ShuffleOutcomes(Len(dataset)), up \in BOOLEAN :
          LET d == TrainTestSplit(dataset, FirstTestSize(train_split), p, up)
          IN  IF d.error # None
              THEN /\ pc' = "raised"
                   /\ UNCHANGED <<dataset, train_dataset>>
              ELSE /\ pc' = "split1"
                   /\ dataset' = [train |-> d.train, test |-> d.test]
                   /\ train_dataset' = d.train
    /\ UNCHANGED <<argVars, split_input, val_dataset,
                   test_dataset, batchVars, schedVars, loaderVars>>

\* test_dataset = dataset['test'].train_test_split(test_size=1-(val_split/(1-train_split)))
\* val_dataset = test_dataset['train']; test_dataset = test_dataset['test']
\* return train_dataset, val_dataset, test_dataset
Split2 ==
    /\ pc = "split1"
    /\ \E p \in ShuffleOutcomes(Len(HeldOut(dataset))), up \in BOOLEAN :
          LET d == TrainTestSplit(HeldOut(dataset),
                                  SecondTestSize(train_split, val_split), p, up)
          IN  IF d.error # None
              THEN /\ pc' = "raised"
                   /\ UNCHANGED <<val_dataset, test_dataset>>
              ELSE /\ pc' = "returned"
                   /\ val_dataset' = d.train
                   /\ test_dataset' = d.test
    /\ UNCHANGED <<argVars, dataset, split_input,
                   train_dataset, batchVars, schedVars, loaderVars>>

(***************************************************************************)
(* load_reddit                                                             *)
(***************************************************************************)
\* dataset = dataset.filter(...)
FilterStep ==
    /\ pc = "concatenated"
    /\ dataset' = Filter(dataset, min_len)
    /\ pc' = "filtered"
    /\ UNCHANGED <<argVars, split_input, train_dataset,
                   val_dataset, test_dataset, batchVars, schedVars, loaderVars>>

\* dataset = dataset.map(...); then split_data(dataset, train_split, val_split) is entered
MapStep ==
    /\ pc = "filtered"
    /\ dataset' = Map(dataset)
    /\ pc' = "split_data"
    /\ UNCHANGED <<argVars, split_input, train_dataset,
                   val_dataset, test_dataset, batchVars, schedVars, loaderVars>>

\* the three .sort('doc_len') calls and the return
SortStep ==
    /\ pc = "returned"
    /\ train_dataset' = Sort(train_dataset)
    /\ val_dataset' = Sort(val_dataset)
    /\ test_dataset' = Sort(test_dataset)
    /\ pc' = "done"
    /\ UNCHANGED <<argVars, dataset, split_input,
                   batchVars, schedVars, loaderVars>>

(***************************************************************************)
(* batch_by_instances                                                      *)
(***************************************************************************)
\* The names the module binds: its imports (lines 1-5) and its functions.
ModuleGlobals ==
    {"math", "load_dataset", "concatenate_datasets", "lr_scheduler",
     "DataLoader", "SequentialSampler", "BatchSampler",
     "create_data_loader", "load_reddit", "split_data", "init_schedule",
     "batch_by_instances"}

\* Python's builtins used by the module
Builtins == {"len", "max", "min", "range", "ValueError"}

\* A global name lookup succeeds for module globals and builtins, and raises
\* NameError for any other name.
Bound(name) == name \in ModuleGlobals \cup Builtins

Min(a, b) == IF a < b THEN a ELSE b

\* the Python slice s[lo:hi] of a list, lo and hi 0-based and within 0..
Slice(s, lo, hi) == SubSeq(s, lo + 1, Min(hi, Len(s)))

\* max(len(x) for x in batch_x), batch_x not empty
MaxLen(batch_x) ==
    CHOOSE m \in {len(batch_x[k]) : k \in 1..Len(batch_x)} :
       \A k \in 1..Len(batch_x) : len(batch_x[k]) <= m

\* seq + [pad_token] * (max_len - len(seq))
Pad(seq, max_len, pad) == seq \o [j \in 1..(max_len - len(seq)) |-> pad]

\* torch.stack([torch.LongTensor(...) for seq in batch_x]): a matrix, one row per sequence
PaddedBatch(batch_x, pad) ==
    [k \in 1..Len(batch_x) |-> Pad(batch_x[k], MaxLen(batch_x), pad)]

\* One iteration of `for i in range(0, len(sequences), batch_size)`: the two
\* slices, max_len, then the evaluation of torch.stack(...), which starts with
\* the lookup of the global name torch.
BatchIteration ==
    /\ bb_pc = "loop"
    /\ i < len(sequences)
    /\ LET batch_x == Slice(sequences, i, i + batch_size)
           batch_y == Slice(labels, i, i + batch_size)
       IN  IF Bound("torch")
           THEN /\ batches_x' = Append(batches_x, PaddedBatch(batch_x, pad_token))
                /\ batches_y' = Append(batches_y, batch_y)
                /\ i' = i + batch_size
                /\ bb_pc' = "loop"
           ELSE /\ bb_pc' = "NameError"
                /\ UNCHANGED <<batches_x, batches_y, i>>
    /\ UNCHANGED <<sequences, labels, batch_size, pad_token,
                   redditVars, schedVars, loaderVars>>

\* the range is exhausted: return batches_x, batches_y
BatchReturn ==
    /\ bb_pc = "loop"
    /\ i >= len(sequences)
    /\ bb_pc' = "returned"
    /\ UNCHANGED <<sequences, labels, batch_size, pad_token, i, batches_x, batches_y,
                   redditVars, schedVars, loaderVars>>

SeqsUpTo(S, n) == UNION {[1..k -> S] : k \in 0..n}

InitBatch ==
    /\ bb_pc = "loop"
    /\ sequences \in SeqsUpTo(SeqsUpTo(Tokens, MaxSeqLen), MaxSeqs)
    /\ labels \in [1..Len(sequences) -> Labels]
    /\ batch_size \in 1..MaxBatch
    /\ pad_token \in PadTokens
    /\ i = 0
    /\ batches_x = << >> /\ batches_y = << >>
    /\ IdleReddit /\ IdleSched /\ IdleLoader

NextBatch == BatchIteration \/ BatchReturn

SpecBatch == InitBatch /\ [][NextBatch]_vars

BatchEnded == bb_pc \in {"returned", "NameError"}

\* C3: a call with n sequences and batch size b returns ceil(n/b) sequence
\* batches and ceil(n/b) label batches.
C3_NumberOfBatches ==
    BatchEnded =>
       /\ bb_pc = "returned"
       /\ Len(batches_x) = CeilDiv(Len(sequences), batch_size)
       /\ Len(batches_y) = CeilDiv(Len(sequences), batch_size)

\* the sequences of input positions (0-based) k*b .. min((k+1)*b, n)-1
Chunk(s, k) == Slice(s, k * batch_size, (k + 1) * batch_size)

\* C4: the call returns, and in every batch every row is as long as the
\* longest original sequence of that batch, starts with its original
\* sequence and holds pad_token after it.
C4_RowsPaddedToBatchMaximum ==
    BatchEnded =>
       /\ bb_pc = "returned"
       /\ Len(batches_x) = CeilDiv(Len(sequences), batch_size)
       /\ \A k \in 1..Len(batches_x) :
             LET orig == Chunk(sequences, k - 1)
             IN  /\ Len(batches_x[k]) = Len(orig)
                 /\ \A j \in 1..Len(orig) :
                       LET row == batches_x[k][j]
                       IN  /\ \A o \in 1..Len(orig) : Len(orig[o]) <= Len(row)
                           /\ \E o \in 1..Len(orig) : Len(orig[o]) = Len(row)
                           /\ SubSeq(row, 1, Len(orig[j])) = orig[j]
                           /\ \A q \in (Len(orig[j]) + 1)..Len(row) : row[q] = pad_token

\* C7: the call returns, batch k holds the sequences of input positions
\* k*b .. min((k+1)*b, n)-1 in input order, label batch k the labels of the
\* same positions, every batch but the last has b rows and the last 1..b.
C7_OrderAndAlignment ==
    BatchEnded =>
       /\ bb_pc = "returned"
       /\ Len(batches_x) = Len(batches_y)
       /\ \A k \in 1..Len(batches_x) :
             /\ batches_y[k] = Chunk(labels, k - 1)
             /\ Len(batches_x[k]) = Len(batches_y[k])
             /\ Len(batches_x[k]) \in 1..batch_size
             /\ k < Len(batches_x) => Len(batches_x[k]) = batch_size
             /\ \A j \in 1..Len(batches_x[k]) :
                   LET src == sequences[(k - 1) * batch_size + j]
                   IN  SubSeq(batches_x[k][j], 1, Len(src)) = src
       /\ (Len(batches_x) - 1) * batch_size < Len(sequences) \/ Len(sequences) = 0
       /\ Len(sequences) <= Len(batches_x) * batch_size

(***************************************************************************)
(* init_schedule                                                           *)
(***************************************************************************)
BranchNoamAsElse(s) ==
    CASE s = "constant" \/ s = "none" -> "constant"
      [] s = "cosineannealing" -> "cosineannealing"
      [] s = "invsqrt" -> "invsqrt"
      [] s = "linear" -> "linear"
      [] s = "onecycle" -> "onecycle"
      [] OTHER -> "noam"

BranchWithoutNone(s) ==
    CASE s = "constant" -> "constant"
      [] s = "cosineannealing" -> "cosineannealing"
      [] s = "invsqrt" -> "invsqrt"
      [] s = "linear" -> "linear"
      [] s = "onecycle" -> "onecycle"
      [] s = "noam" -> "noam"
      [] OTHER -> "else"

\* The if / elif chain on sched: the branch taken
Branch(s) ==
    CASE s = "constant" \/ s = "none" -> "constant"
      [] s = "cosineannealing" -> "cosineannealing"
      [] s = "invsqrt" -> "invsqrt"
      [] s = "linear" -> "linear"
      [] s = "onecycle" -> "onecycle"
      [] s = "noam" -> "noam"
      [] OTHER -> "else"

Raised(type, by) == [raised |-> [type |-> type, by |-> by], scheduler |-> NoScheduler]

Built(obj) == [raised |-> NoException, scheduler |-> obj]

\* lr_scheduler.LambdaLR(optimizer, lr_lambda): the constructor takes the
\* initial step, which evaluates lr_lambda(0); fails says whether that raises
\* ZeroDivisionError.
LambdaLR(lr_lambda, fails) ==
    IF fails THEN Raised("ZeroDivisionError", "lr_lambda")
    ELSE Built([cls |-> "LambdaLR", lr_lambda |-> lr_lambda])

\* lr_scheduler.LinearLR(optimizer, start_factor, end_factor, total_iters):
\* ValueError unless 0 < start_factor <= 1 and 0 <= end_factor <= 1
LinearLR(start_factor, end_factor, total_iters) ==
    IF \/ start_factor[1] > start_factor[2] \/ start_factor[1] <= 0
       \/ end_factor[1] > end_factor[2] \/ end_factor[1] < 0
    THEN Raised("ValueError", "LinearLR")
    ELSE Built([cls |-> "LinearLR", start_factor |-> start_factor,
                end_factor |-> end_factor, total_iters |-> total_iters])

\* lr_scheduler.OneCycleLR(optimizer, max_lr, total_steps, pct_start, anneal_strategy):
\* ValueError unless total_steps is a positive integer
OneCycleLR(max_lr, total_steps) ==
    IF total_steps <= 0
    THEN Raised("ValueError", "OneCycleLR")
    ELSE Built([cls |-> "OneCycleLR", max_lr |-> max_lr, total_steps |-> total_steps,
                pct_start |-> <<3, 10>>, anneal_strategy |-> "linear"])

\* The noam lambda at step 0:
\* (emb_dim ** -0.5) * min(1 ** -0.5, 1 * (warmup_steps ** -1.5)), with
\* warmup_steps = 0.3 * len(train_loader) * epochs; a zero base under a
\* negative power raises ZeroDivisionError.
NoamFailsAtStepZero(n, e, d) == d = 0 \/ 3 * n * e = 0

\* init_schedule(optimizer, sched, train_loader, lr, epochs, emb_dim), with n
\* = len(train_loader): what it raises and what it returns
InitSchedule(s, n, l, e, d) ==
    CASE Branch(s) = "constant" -> LambdaLR("one", FALSE)
      [] Branch(s) = "cosineannealing" ->
            Built([cls |-> "CosineAnnealingWarmRestarts", T_0 |-> 10, T_mult |-> 1,
                   eta_min |-> 0, last_epoch |-> -1])
      [] Branch(s) = "invsqrt" -> LambdaLR("invsqrt", FALSE)
      [] Branch(s) = "linear" -> LinearLR(<<l[1], 5 * l[2]>>, l, n * e)
      [] Branch(s) = "onecycle" -> OneCycleLR(l, n * e)
      [] Branch(s) = "noam" -> LambdaLR("noam", NoamFailsAtStepZero(n, e, d))
      [] OTHER -> Raised("ValueError", "init_schedule")

InitScheduleCall ==
    /\ is_pc = "call"
    /\ LET r == InitSchedule(sched, len_train_loader, lr, epochs, emb_dim)
       IN  /\ exc' = r.raised
           /\ scheduler' = r.scheduler
           /\ is_pc' = IF r.raised = NoException THEN "returned" ELSE "raised"
    /\ UNCHANGED <<sched, len_train_loader, lr, epochs, emb_dim,
                   redditVars, batchVars, loaderVars>>

InitSched ==
    /\ is_pc = "call"
    /\ sched \in SchedNames
    /\ len_train_loader \in 0..MaxLoaderLen
    /\ lr \in LearningRates
    /\ epochs \in 0..MaxEpochs
    /\ emb_dim \in EmbDims
    /\ scheduler = NoScheduler /\ exc = NoException
    /\ IdleReddit /\ IdleBatch /\ IdleLoader

NextSched == InitScheduleCall

SpecSched == InitSched /\ [][NextSched]_vars

SevenNames == {"constant", "none", "cosineannealing", "invsqrt", "linear", "onecycle", "noam"}

\* raise ValueError("Invalid scheduler option provided.")
InvalidOption == [type |-> "ValueError", by |-> "init_schedule"]

\* C5: a call with a name that is not one of the recognized names raises the
\* invalid-option ValueError and returns no scheduler, and init_schedule
\* itself raises nothing else: any other exception comes out of a library
\* constructor or the lambda it runs.
C5_UnknownNameRaises ==
    is_pc # "call" =>
       /\ sched \notin SevenNames => is_pc = "raised" /\ exc = InvalidOption /\ scheduler = NoScheduler
       /\ (is_pc = "raised" /\ exc.by = "init_schedule") => exc = InvalidOption /\ sched \notin SevenNames
       /\ is_pc = "raised" <=> exc # NoException

C5_Witness == is_pc = "raised" /\ sched = "bogus" /\ exc = InvalidOption /\ scheduler = NoScheduler

KindOf(s) ==
    CASE s \in {"constant", "none", "invsqrt", "noam"} -> "LambdaLR"
      [] s = "cosineannealing" -> "CosineAnnealingWarmRestarts"
      [] s = "linear" -> "LinearLR"
      [] s = "onecycle" -> "OneCycleLR"

\* C6 as stated: six names are recognized, and a call with a recognized name
\* returns a non-null scheduler whatever the other arguments are.
C6_SixNamesAlwaysReturn ==
    is_pc # "call" =>
       /\ Cardinality({s \in SchedNames : Branch(s) # "else"}) = 6
       /\ Branch(sched) # "else" => is_pc = "returned" /\ scheduler # NoScheduler

\* C6 amended: seven names are recognized ("constant" and "none" select the
\* same scheduler); a call with one of them never raises the invalid-option
\* error and ends either with the non-null scheduler of that name's class or
\* with an exception from inside the library constructor, and it returns the
\* scheduler when 0 < lr <= 1, len(train_loader) * epochs > 0 and emb_dim > 0.
C6_SevenNamesReturnUnlessLibraryRejects ==
    /\ {s \in SchedNames : Branch(s) # "else"} = SevenNames
    /\ Cardinality(SevenNames) = 7
    /\ (is_pc # "call" /\ sched \in SevenNames) =>
          /\ exc # InvalidOption
          /\ \/ is_pc = "returned" /\ scheduler.cls = KindOf(sched) /\ exc = NoException
             \/ is_pc = "raised" /\ scheduler = NoScheduler /\ exc.by # "init_schedule"
          /\ (lr[1] > 0 /\ lr[1] <= lr[2] /\ len_train_loader * epochs > 0 /\ emb_dim > 0)
                => is_pc = "returned"
          /\ sched \in {"constant", "none", "cosineannealing", "invsqrt"} => is_pc = "returned"

C6_Witness ==
    /\ is_pc = "returned" /\ sched = "none" /\ scheduler.cls = "LambdaLR"
    /\ len_train_loader = 0 /\ emb_dim = 0 /\ lr[1] = 0

(***************************************************************************)
(* create_data_loader and one pass over the loader                         *)
(***************************************************************************)
DropLastTrue == TRUE

\* BatchSampler(sampler, batch_size, drop_last=False)
DropLast == FALSE

\* SequentialSampler(dataset): iter(range(len(dataset))); the indices left
\* when idx is the next one
SamplerHasNext == idx < len(dl_dataset)

\* DataLoader's fetch: [dataset[k] for k in indices], handed to collate_fn
Fetch(indices) == [j \in 1..Len(indices) |-> dl_dataset[indices[j] + 1]]

\* BatchSampler's loop body: batch.append(idx); a full batch is yielded, and
\* the loader yields collate_fn of its instances.
SamplerStep ==
    /\ dl_pc = "iterating"
    /\ SamplerHasNext
    /\ idx' = idx + 1
    /\ IF Len(batch) + 1 = dl_batch_size
       THEN /\ yielded' = Append(yielded, Fetch(Append(batch, idx)))
            /\ batch' = << >>
       ELSE /\ batch' = Append(batch, idx)
            /\ UNCHANGED yielded
    /\ UNCHANGED <<dl_pc, dl_dataset, dl_batch_size, redditVars, batchVars, schedVars>>

\* after the loop: if len(batch) > 0 and not drop_last: yield batch
SamplerEnd ==
    /\ dl_pc = "iterating"
    /\ ~SamplerHasNext
    /\ dl_pc' = "exhausted"
    /\ IF Len(batch) > 0 /\ ~DropLast
       THEN yielded' = Append(yielded, Fetch(batch))
       ELSE UNCHANGED yielded
    /\ batch' = << >>
    /\ UNCHANGED <<idx, dl_dataset, dl_batch_size, redditVars, batchVars, schedVars>>

\* create_data_loader(dataset, batch_size, collate_fn) and iter() of the result
CreateDataLoader ==
    /\ dl_pc = "call"
    /\ dl_pc' = "iterating"
    /\ idx' = 0 /\ batch' = << >> /\ yielded' = << >>
    /\ UNCHANGED <<dl_dataset, dl_batch_size, redditVars, batchVars, schedVars>>

InitLoader ==
    /\ dl_pc = "call"
    /\ dl_dataset \in SeqsUpTo(Tokens, MaxData)
    /\ dl_batch_size \in 1..MaxBatch
    /\ idx = 0 /\ batch = << >> /\ yielded = << >>
    /\ IdleReddit /\ IdleBatch /\ IdleSched

NextLoader == CreateDataLoader \/ SamplerStep \/ SamplerEnd

SpecLoader == InitLoader /\ [][NextLoader]_vars

RECURSIVE Flatten(_)
Flatten(ss) == IF ss = << >> THEN << >> ELSE Head(ss) \o Flatten(Tail(ss))

\* C10: during a pass the batches yielded so far hold, in index order, each
\* exactly once, the first instances of the dataset, every yielded batch but
\* possibly the last one of the pass has batch_size instances, and when the
\* pass ends the ceil(n/batch_size) batches yielded hold all n instances, the
\* last one keeping the 1..batch_size instances left over.
C10_SequentialBatches ==
    /\ dl_pc \in {"iterating", "exhausted"} =>
          /\ Flatten(yielded) = SubSeq(dl_dataset, 1, Len(Flatten(yielded)))
          /\ Len(Flatten(yielded)) + Len(batch) = idx
          /\ \A k \in 1..(Len(yielded) - 1) : Len(yielded[k]) = dl_batch_size
    /\ dl_pc = "iterating" => \A k \in 1..Len(yielded) : Len(yielded[k]) = dl_batch_size
    /\ dl_pc = "exhausted" =>
          /\ Flatten(yielded) = dl_dataset
          /\ Len(yielded) = CeilDiv(Len(dl_dataset), dl_batch_size)
          /\ \A k \in 1..Len(yielded) : Len(yielded[k]) \in 1..dl_batch_size

C10_Witness ==
    /\ dl_pc = "exhausted"
    /\ Len(dl_dataset) = 3 /\ dl_batch_size = 2
    /\ Len(yielded) = 2 /\ Len(yielded[2]) = 1

(***************************************************************************)
(* Initial states and specifications of load_reddit and split_data         *)
(***************************************************************************)
\* The concatenation of the short and the long corpus, columns renamed to
\* document / summary: up to MaxN rows of every shape. `row` is the row's
\* position in the concatenation and stands for the row's identity.
RawDatasets ==
    UNION {
      {[k \in 1..n |-> [row |-> k, document |-> Text(f[k][1]), summary |-> Text(f[k][2])]]
         : f \in [1..n -> Shapes]}
      : n \in 0..MaxN}

\* A dataset of n rows as split_data receives it from load_reddit
MappedDataset(n) ==
    Map([k \in 1..n |-> [row |-> k, document |-> Text((k % 3) + 2), summary |-> Text(1)]])

InitReddit ==
    /\ pc = "concatenated"
    /\ min_len \in MinLens
    /\ \E r \in Ratios : train_split = r[1] /\ val_split = r[2]
    /\ dataset \in RawDatasets
    /\ raw_dataset = dataset
    /\ split_input = << >>
    /\ train_dataset = << >> /\ val_dataset = << >> /\ test_dataset = << >>
    /\ IdleBatch /\ IdleSched /\ IdleLoader

NextReddit == FilterStep \/ MapStep \/ Shuffle \/ Split1 \/ Split2 \/ SortStep

SpecReddit == InitReddit /\ [][NextReddit]_vars

InitSplit ==
    /\ pc = "split_data"
    /\ min_len = 0
    /\ \E r \in Ratios : train_split = r[1] /\ val_split = r[2]
    /\ dataset \in {MappedDataset(n) : n \in 0..MaxSplitN}
    /\ raw_dataset = dataset
    /\ split_input = << >>
    /\ train_dataset = << >> /\ val_dataset = << >> /\ test_dataset = << >>
    /\ IdleBatch /\ IdleSched /\ IdleLoader

NextSplit == Shuffle \/ Split1 \/ Split2

SpecSplit == InitSplit /\ [][NextSplit]_vars

(***************************************************************************)
(* Properties of split_data                                                *)
(***************************************************************************)
Partitions == train_dataset \o val_dataset \o test_dataset

Rows(ds) == {ds[k].row : k \in 1..Len(ds)}

\* C1: whenever split_data returns, no row of its input is in two of the
\* three partitions (nor twice in one), every row of a partition is a row of
\* the input, and the three sizes sum to the size of the input.
C1_DisjointAndSizesSum ==
    pc = "returned" =>
       /\ Rows(train_dataset) \cap Rows(val_dataset) = {}
       /\ Rows(train_dataset) \cap Rows(test_dataset) = {}
       /\ Rows(val_dataset) \cap Rows(test_dataset) = {}
       /\ Len(train_dataset) + Len(val_dataset) + Len(test_dataset) = Len(split_input)
       /\ Rows(Partitions) = Rows(split_input)
       /\ \A k \in 1..Len(Partitions) : Partitions[k] \in Range(split_input)

C1_Witness ==
    /\ pc = "returned"
    /\ Len(train_dataset) >= 2 /\ Len(val_dataset) >= 2 /\ Len(test_dataset) >= 2

\* C9: whenever split_data returns for N rows, the train size is within one
\* row of train_split*N, the validation size within one row of val_split*N,
\* the test partition holds the remaining rows, and validation and test
\* together are exactly the part held out by the first split.
C9_SizesFollowRatios ==
    pc = "returned" =>
       LET N == Len(split_input)
       IN  /\ Abs(100 * Len(train_dataset) - train_split * N) <= 100
           /\ Abs(100 * Len(val_dataset) - val_split * N) <= 100
           /\ Len(test_dataset) = N - Len(train_dataset) - Len(val_dataset)
           /\ Len(val_dataset) + Len(test_dataset) = Len(dataset.test)
           /\ Rows(val_dataset) \cup Rows(test_dataset) = Rows(dataset.test)

C9_Witness ==
    /\ pc = "returned"
    /\ Len(split_input) = 8 /\ train_split = 25 /\ val_split = 50
    /\ Len(train_dataset) = 2 /\ Len(val_dataset) = 4 /\ Len(test_dataset) = 2

(***************************************************************************)
(* Properties of load_reddit                                               *)
(***************************************************************************)
SortedByDocLen(ds) ==
    /\ \A k \in 1..(Len(ds) - 1) : ds[k].doc_len <= ds[k + 1].doc_len
    /\ \A k \in 1..Len(ds) : ds[k].doc_len = Len(ds[k].document)

\* C2: each partition load_reddit returns is sorted non-decreasingly by
\* doc_len, and doc_len is the length of the row's document.
C2_PartitionsSorted ==
    pc = "done" =>
       /\ SortedByDocLen(train_dataset)
       /\ SortedByDocLen(val_dataset)
       /\ SortedByDocLen(test_dataset)

C2_Witness ==
    /\ pc = "done"
    /\ \E ds \in {train_dataset, val_dataset, test_dataset} :
          /\ Len(ds) >= 2
          /\ ds[1].doc_len < ds[Len(ds)].doc_len
          /\ ds[1].row > ds[Len(ds)].row

PassesLengthFilter(x) ==
    /\ Len(x.document) > min_len
    /\ Len(x.summary) > min_len
    /\ Len(x.document) > Len(x.summary)

Occurrences(ds, r) == Cardinality({k \in 1..Len(ds) : ds[k].row = r})

\* C8: only rows that pass the length filter reach split_data, every row of a
\* returned partition passes it, and every row of the concatenated dataset
\* that passes it is in exactly one partition, exactly once.
C8_OnlyFilteredRows ==
    /\ pc \in {"shuffled", "split1", "returned", "raised", "done"} =>
          \A k \in 1..Len(split_input) : PassesLengthFilter(split_input[k])
    /\ pc \in {"returned", "done"} =>
          /\ \A k \in 1..Len(Partitions) : PassesLengthFilter(Partitions[k])
          /\ \A k \in 1..Len(raw_dataset) :
                Occurrences(Partitions, raw_dataset[k].row)
                   = IF PassesLengthFilter(raw_dataset[k]) THEN 1 ELSE 0
          /\ \A k \in 1..Len(Partitions) :
                /\ Partitions[k].document = raw_dataset[Partitions[k].row].document
                /\ Partitions[k].summary = raw_dataset[Partitions[k].row].summary

C8_Witness ==
    /\ pc = "done"
    /\ Len(Partitions) >= 3
    /\ \E k \in 1..Len(raw_dataset) :
          /\ Len(raw_dataset[k].document) > min_len
          /\ ~PassesLengthFilter(raw_dataset[k])

====
